---- MODULE Spec2Model ----
(***************************************************************************)
(* A model of soydepend-rs (src/src/lib.rs): Graph<T>, an in-memory        *)
(* dependency graph kept as a node set and two adjacency maps,             *)
(* `dependencies` and `dependents`, mutated by depend / undepend / remove  *)
(* and queried through the closure traversal dig_deep.                     *)
(*                                                                         *)
(* A HashMap<T, HashSet<T>> is a function whose DOMAIN is the set of keys  *)
(* present in the map, so an absent key and a key holding the empty set    *)
(* are different values.  A Graph value is the record                      *)
(* [nodes, dependents, dependencies]; every method is an operator on such  *)
(* a record, and the mutating methods return [res, g]: the Result and the  *)
(* graph the call leaves behind.                                           *)
(***************************************************************************)
EXTENDS Integers, FiniteSets, Sequences, TLC

\* Number of distinct identifiers (values of T) the callers draw from.
MaxId == 3

Ids == 1..MaxId

VARIABLES
    nodes,          \* Graph.nodes
    dependents,     \* Graph.dependents
    dependencies,   \* Graph.dependencies
    last,           \* the last call: its name, arguments, result and the graph before it
    dig             \* a dig_deep call in progress: its arguments, locals and position

vars == <<nodes, dependents, dependencies, last, dig>>

\* The Graph value held by the variables.
G == [nodes |-> nodes, dependents |-> dependents, dependencies |-> dependencies]

\* HashMap::default(): a map with no key.
EmptyEdges == [k \in {} |-> {}]

\* Graph::new() / Graph::default()
new == [nodes |-> {}, dependents |-> EmptyEdges, dependencies |-> EmptyEdges]

-----------------------------------------------------------------------------
(* Helpers on the HashMap / HashSet values *)

\* edges.get(key), with None read as "no neighbours" (the callers `continue`,
\* `unwrap_or(false)` or `is_some_and` on None).
Get(edges, key) == IF key \in DOMAIN edges THEN edges[key] ELSE {}

\* HashMap::remove(key)
MapRemove(edges, key) == [k \in DOMAIN edges \ {key} |-> edges[k]]

\* The elements of a HashSet in the order one iteration yields them.  The
\* order is unspecified in Rust; the smallest-first order stands for it (the
\* set results below do not depend on it).
RECURSIVE iter(_)
iter(set) ==
    IF set = {} THEN <<>>
    ELSE LET m == CHOOSE x \in set : \A y \in set : x <= y
         IN  <<m>> \o iter(set \ {m})

-----------------------------------------------------------------------------
(* Free functions of lib.rs *)

\* insert_to_deps putting a fresh one-element set under the key in both
\* branches.
insert_to_deps_overwrite(edges, key, value) ==
    [k \in DOMAIN edges \cup {key} |-> IF k = key THEN {value} ELSE edges[k]]

\* insert_to_deps: add value to the set under key, creating the set if absent.
insert_to_deps(edges, key, value) ==
    IF key \in DOMAIN edges
    THEN [edges EXCEPT ![key] = @ \cup {value}]
    ELSE [k \in DOMAIN edges \cup {key} |-> IF k = key THEN {value} ELSE edges[k]]

\* rm_from_deps without the `nodes.len() <= 1` branch: the emptied set stays
\* under its key.
rm_from_deps_keep_key(edges, key, target) ==
    IF key \notin DOMAIN edges THEN edges
    ELSE IF target \notin edges[key] THEN edges
    ELSE [edges EXCEPT ![key] = @ \ {target}]

\* rm_from_deps dropping the key whenever its set holds target.
rm_from_deps_drop_key(edges, key, target) ==
    IF key \notin DOMAIN edges THEN edges
    ELSE IF target \notin edges[key] THEN edges
    ELSE MapRemove(edges, key)

\* rm_from_deps: take target out of the set under key; a set of one element
\* (or fewer) that holds target is dropped together with its key.
rm_from_deps(edges, key, target) ==
    IF key \notin DOMAIN edges THEN edges
    ELSE IF target \notin edges[key] THEN edges
    ELSE IF Cardinality(edges[key]) <= 1 THEN MapRemove(edges, key)
    ELSE [edges EXCEPT ![key] = @ \ {target}]

\* dig_scan without the `result.contains(n)` test: every neighbour is pushed.
RECURSIVE dig_scan_unfiltered(_, _, _, _)
dig_scan_unfiltered(edges, search_next, i, acc) ==
    IF i > Len(search_next) THEN acc
    ELSE LET found == Get(edges, search_next[i])
         IN  dig_scan_unfiltered(edges, search_next, i + 1,
                                 [discovered |-> acc.discovered \o iter(found),
                                  result     |-> acc.result \cup found])

\* One pass of dig_deep's `for next in search_next.iter()` from position i on:
\* acc = [discovered, result].  Every neighbour not yet in result is pushed to
\* discovered and inserted into result.
RECURSIVE dig_scan(_, _, _, _)
dig_scan(edges, search_next, i, acc) ==
    IF i > Len(search_next) THEN acc
    ELSE LET fresh == Get(edges, search_next[i]) \ acc.result
         IN  dig_scan(edges, search_next, i + 1,
                      [discovered |-> acc.discovered \o iter(fresh),
                       result     |-> acc.result \cup fresh])

\* dig_loop stopping after its first round: only the direct neighbours are
\* collected.
dig_loop_one_round(edges, search_next, result) ==
    dig_scan(edges, search_next, 1, [discovered |-> <<>>, result |-> result]).result

\* dig_deep's `while !search_next.is_empty()` loop.
RECURSIVE dig_loop(_, _, _)
dig_loop(edges, search_next, result) ==
    IF search_next = <<>> THEN result
    ELSE LET acc == dig_scan(edges, search_next, 1,
                             [discovered |-> <<>>, result |-> result])
         IN  dig_loop(edges, acc.discovered, acc.result)

\* dig_deep(edges, node): search_next = vec![node], result = {}.
dig_deep(edges, node) == dig_loop(edges, <<node>>, {})

-----------------------------------------------------------------------------
(* Queries of Graph *)

contains(g, node) == node \in g.nodes

depends_on_directly(g, dependent, dependency) ==
    dependency \in Get(g.dependencies, dependent)

\* Graph::dependencies(node): deep dependencies of node.
dependencies_of(g, node) == dig_deep(g.dependencies, node)

\* Graph::dependents(node): deep dependents of node.
dependents_of(g, node) == dig_deep(g.dependents, node)

depends_on(g, dependent, dependency) ==
    dependency \in dependencies_of(g, dependent)

\* is_dependend looking the node up in the dependencies map.
is_dependend_wrong_map(g, node) ==
    node \in DOMAIN g.dependencies /\ g.dependencies[node] # {}

is_dependend(g, node) ==
    node \in DOMAIN g.dependents /\ g.dependents[node] # {}

-----------------------------------------------------------------------------
(* Mutations of Graph *)

\* depend without the cycle check.
depend_unchecked(g, dependent, dependency) ==
    IF dependent = dependency THEN [res |-> "DependsOnSelf", g |-> g]
    ELSE [res |-> "Ok",
          g   |-> [nodes        |-> g.nodes \cup {dependent, dependency},
                   dependents   |-> insert_to_deps(g.dependents, dependency, dependent),
                   dependencies |-> insert_to_deps(g.dependencies, dependent, dependency)]]

\* depend with the arguments of the cycle check exchanged.
depend_swapped_check(g, dependent, dependency) ==
    IF dependent = dependency THEN [res |-> "DependsOnSelf", g |-> g]
    ELSE IF depends_on(g, dependent, dependency)
         THEN [res |-> "CircularDependency", g |-> g]
    ELSE [res |-> "Ok",
          g   |-> [nodes        |-> g.nodes \cup {dependent, dependency},
                   dependents   |-> insert_to_deps(g.dependents, dependency, dependent),
                   dependencies |-> insert_to_deps(g.dependencies, dependent, dependency)]]

\* depend inserting both identifiers into nodes before its two checks.
depend_insert_first(g, dependent, dependency) ==
    LET g1 == [g EXCEPT !.nodes = @ \cup {dependent, dependency}]
    IN  IF dependent = dependency THEN [res |-> "DependsOnSelf", g |-> g1]
        ELSE IF depends_on(g, dependency, dependent)
             THEN [res |-> "CircularDependency", g |-> g1]
        ELSE [res |-> "Ok",
              g   |-> [nodes        |-> g1.nodes,
                       dependents   |-> insert_to_deps(g.dependents, dependency, dependent),
                       dependencies |-> insert_to_deps(g.dependencies, dependent, dependency)]]

\* depend refusing an edge that is already there.
depend_reject_existing(g, dependent, dependency) ==
    IF dependent = dependency THEN [res |-> "DependsOnSelf", g |-> g]
    ELSE IF depends_on(g, dependency, dependent)
         THEN [res |-> "CircularDependency", g |-> g]
    ELSE IF depends_on_directly(g, dependent, dependency)
         THEN [res |-> "DependencyExists", g |-> g]
    ELSE [res |-> "Ok",
          g   |-> [nodes        |-> g.nodes \cup {dependent, dependency},
                   dependents   |-> insert_to_deps(g.dependents, dependency, dependent),
                   dependencies |-> insert_to_deps(g.dependencies, dependent, dependency)]]

\* depend without `self.nodes.insert(dependency.clone())`.
depend_forget_node(g, dependent, dependency) ==
    IF dependent = dependency THEN [res |-> "DependsOnSelf", g |-> g]
    ELSE IF depends_on(g, dependency, dependent)
         THEN [res |-> "CircularDependency", g |-> g]
    ELSE [res |-> "Ok",
          g   |-> [nodes        |-> g.nodes \cup {dependent},
                   dependents   |-> insert_to_deps(g.dependents, dependency, dependent),
                   dependencies |-> insert_to_deps(g.dependencies, dependent, dependency)]]

\* Graph::depend
depend(g, dependent, dependency) ==
    IF dependent = dependency THEN [res |-> "DependsOnSelf", g |-> g]
    ELSE IF depends_on(g, dependency, dependent)
         THEN [res |-> "CircularDependency", g |-> g]
    ELSE [res |-> "Ok",
          g   |-> [nodes        |-> g.nodes \cup {dependent, dependency},
                   dependents   |-> insert_to_deps(g.dependents, dependency, dependent),
                   dependencies |-> insert_to_deps(g.dependencies, dependent, dependency)]]

\* undepend whose second rm_from_deps gets key and target in the order of the
\* first.
undepend_unswapped(g, dependent, dependency) ==
    IF ~depends_on_directly(g, dependent, dependency)
    THEN [res |-> "NoSuchDirectDependency", g |-> g]
    ELSE [res |-> "Ok",
          g   |-> [nodes        |-> g.nodes,
                   dependents   |-> rm_from_deps(g.dependents, dependent, dependency),
                   dependencies |-> rm_from_deps(g.dependencies, dependent, dependency)]]

\* undepend guarded by depends_on instead of depends_on_directly.
undepend_transitive(g, dependent, dependency) ==
    IF ~depends_on(g, dependent, dependency)
    THEN [res |-> "NoSuchDirectDependency", g |-> g]
    ELSE [res |-> "Ok",
          g   |-> [nodes        |-> g.nodes,
                   dependents   |-> rm_from_deps(g.dependents, dependency, dependent),
                   dependencies |-> rm_from_deps(g.dependencies, dependent, dependency)]]

\* undepend without its first rm_from_deps: only the dependents map is updated.
undepend_half(g, dependent, dependency) ==
    IF ~depends_on_directly(g, dependent, dependency)
    THEN [res |-> "NoSuchDirectDependency", g |-> g]
    ELSE [res |-> "Ok",
          g   |-> [nodes        |-> g.nodes,
                   dependents   |-> rm_from_deps(g.dependents, dependency, dependent),
                   dependencies |-> g.dependencies]]

\* Graph::undepend
undepend(g, dependent, dependency) ==
    IF ~depends_on_directly(g, dependent, dependency)
    THEN [res |-> "NoSuchDirectDependency", g |-> g]
    ELSE [res |-> "Ok",
          g   |-> [nodes        |-> g.nodes,
                   dependents   |-> rm_from_deps(g.dependents, dependency, dependent),
                   dependencies |-> rm_from_deps(g.dependencies, dependent, dependency)]]

\* delete's first loop left out.
delete_from_dependents_skipped(edges, todo, target) == edges

\* delete's first loop: for every direct dependency (taken from the Vec
\* todo), rm_from_deps(dependents, dependency, target).
RECURSIVE delete_from_dependents(_, _, _)
delete_from_dependents(edges, todo, target) ==
    IF todo = <<>> THEN edges
    ELSE delete_from_dependents(rm_from_deps(edges, Head(todo), target), Tail(todo), target)

\* delete's second loop: for every direct dependent (taken from todo),
\* rm_from_deps(dependencies, target, dependent).
RECURSIVE delete_from_dependencies(_, _, _)
delete_from_dependencies(edges, todo, target) ==
    IF todo = <<>> THEN edges
    ELSE delete_from_dependencies(rm_from_deps(edges, target, Head(todo)), Tail(todo), target)

\* delete without `self.dependencies.remove(target)` and
\* `self.dependents.remove(target)`.
delete_keep_own_entries(g, target) ==
    LET dents1 == delete_from_dependents(g.dependents,
                                         iter(Get(g.dependencies, target)), target)
        deps1  == delete_from_dependencies(g.dependencies,
                                           iter(Get(dents1, target)), target)
    IN  [nodes        |-> g.nodes \ {target},
         dependents   |-> dents1,
         dependencies |-> deps1]

\* Graph::delete
delete(g, target) ==
    LET dents1 == delete_from_dependents(g.dependents,
                                         iter(Get(g.dependencies, target)), target)
        deps1  == delete_from_dependencies(g.dependencies,
                                           iter(Get(dents1, target)), target)
    IN  [nodes        |-> g.nodes \ {target},
         dependents   |-> MapRemove(dents1, target),
         dependencies |-> MapRemove(deps1, target)]

\* remove deleting the node before it reports DependencyExists.
remove_delete_first(g, target) ==
    IF ~contains(g, target) THEN [res |-> "NoSuchNode", g |-> g]
    ELSE [res |-> IF is_dependend(g, target) THEN "DependencyExists" ELSE "Ok",
          g   |-> delete(g, target)]

\* remove without the contains test.
remove_unchecked_node(g, target) ==
    IF is_dependend(g, target) THEN [res |-> "DependencyExists", g |-> g]
    ELSE [res |-> "Ok", g |-> delete(g, target)]

\* Graph::remove
remove(g, target) ==
    IF ~contains(g, target) THEN [res |-> "NoSuchNode", g |-> g]
    ELSE IF is_dependend(g, target) THEN [res |-> "DependencyExists", g |-> g]
    ELSE [res |-> "Ok", g |-> delete(g, target)]

-----------------------------------------------------------------------------
(* The state machine: a caller owning one Graph and calling its methods *)

\* No dig_deep call is in progress and none has returned.
DigIdle ==
    [pc |-> "idle", map |-> "none", node |-> 0, search_next |-> <<>>,
     result |-> {}, entered |-> <<>>, rounds |-> 0]

Init ==
    /\ nodes = new.nodes
    /\ dependents = new.dependents
    /\ dependencies = new.dependencies
    /\ last = [op |-> "new", a |-> 0, b |-> 0, res |-> "Ok", pre |-> new]
    /\ dig = DigIdle

\* The graph after a call that returned r = [res, g].
Mutated(r) ==
    /\ nodes' = r.g.nodes
    /\ dependents' = r.g.dependents
    /\ dependencies' = r.g.dependencies

\* The variables after a call `op(a, b)` that returned r = [res, g].
Called(op, a, b, r) ==
    /\ Mutated(r)
    /\ last' = [op |-> op, a |-> a, b |-> b, res |-> r.res, pre |-> G]
    /\ UNCHANGED dig

Depend == \E a \in Ids, b \in Ids : Called("depend", a, b, depend(G, a, b))

Undepend == \E a \in Ids, b \in Ids : Called("undepend", a, b, undepend(G, a, b))

Remove == \E t \in Ids : Called("remove", t, t, remove(G, t))

Next == Depend \/ Undepend \/ Remove

Spec == Init /\ [][Next]_vars

-----------------------------------------------------------------------------
(* The closure traversal, one round of its while loop per step.  dig_deep   *)
(* borrows the map for the whole call, so the graph does not change while   *)
(* a traversal is in progress.  dig.entered lists every node placed in a    *)
(* frontier (search_next) so far and dig.rounds counts the loop's rounds.   *)

\* The `edges` argument of the traversal in progress.
DigEdges == IF dig.map = "dependencies" THEN dependencies ELSE dependents

\* Graph::dependencies(node) / Graph::dependents(node) is called: dig_deep
\* sets search_next = vec![node] and result = {}.
DigCall ==
    /\ dig.pc # "loop"
    /\ \E m \in {"dependencies", "dependents"}, n \in Ids :
          dig' = [pc |-> "loop", map |-> m, node |-> n, search_next |-> <<n>>,
                  result |-> {}, entered |-> <<n>>, rounds |-> 0]
    /\ UNCHANGED <<nodes, dependents, dependencies, last>>

\* One round of `while !search_next.is_empty()`.
DigRound ==
    /\ dig.pc = "loop"
    /\ dig.search_next # <<>>
    /\ LET acc == dig_scan(DigEdges, dig.search_next, 1,
                           [discovered |-> <<>>, result |-> dig.result])
       IN  dig' = [dig EXCEPT !.search_next = acc.discovered,
                              !.result = acc.result,
                              !.entered = @ \o acc.discovered,
                              !.rounds = @ + 1]
    /\ UNCHANGED <<nodes, dependents, dependencies, last>>

\* The loop ends on an empty search_next and dig_deep returns result.
DigReturn ==
    /\ dig.pc = "loop"
    /\ dig.search_next = <<>>
    /\ dig' = [dig EXCEPT !.pc = "done"]
    /\ UNCHANGED <<nodes, dependents, dependencies, last>>

\* A mutating call between traversals; the returned closure is dropped.
Between(r) ==
    /\ dig.pc # "loop"
    /\ Mutated(r)
    /\ dig' = DigIdle
    /\ UNCHANGED last

DependBetween == \E a \in Ids, b \in Ids : Between(depend(G, a, b))

UndependBetween == \E a \in Ids, b \in Ids : Between(undepend(G, a, b))

RemoveBetween == \E t \in Ids : Between(remove(G, t))

NextDig ==
    \/ DependBetween \/ UndependBetween \/ RemoveBetween
    \/ DigCall \/ DigRound \/ DigReturn

\* A call of dig_deep runs to its return: the loop is synchronous code.
SpecDig == Init /\ [][NextDig]_vars /\ WF_vars(DigRound) /\ WF_vars(DigReturn)

-----------------------------------------------------------------------------
(* Vocabulary of the properties *)

\* The nodes reachable from x by one or more edges of the map `edges`: the
\* members of every set that holds x's neighbours and is closed under taking
\* neighbours.
Closed(edges, x, S) ==
    /\ Get(edges, x) \subseteq S
    /\ \A y \in S : Get(edges, y) \subseteq S

Reachable(edges, x) ==
    {z \in Ids : \A S \in SUBSET Ids : Closed(edges, x, S) => z \in S}

Errors == {"CircularDependency", "DependencyExists", "DependsOnSelf",
           "NoSuchDirectDependency", "NoSuchNode"}

\* The last call was op and returned res.
Returned(op, res) == last.op = op /\ last.res = res

-----------------------------------------------------------------------------
(* C1..C5 *)

\* C1 (acyclicity): in every reachable state no node is a member of its own
\* transitive dependency set, neither as dependencies(X) computes it nor as
\* reachability over the direct-dependency relation defines it.
C1_Acyclic ==
    \A x \in Ids :
        /\ x \notin dependencies_of(G, x)
        /\ x \notin Reachable(dependencies, x)

\* A depend that would have closed a cycle through two edges was rejected.
C1_Witness ==
    /\ Returned("depend", "CircularDependency")
    /\ depends_on(G, last.b, last.a)
    /\ ~depends_on_directly(G, last.b, last.a)

\* C2 (symmetry): in every reachable state, Y is in the direct set
\* dependencies[X] iff X is in the direct set dependents[Y].
C2_Symmetry ==
    \A x \in Ids, y \in Ids :
        y \in Get(dependencies, x) <=> x \in Get(dependents, y)

\* An undepend or a remove succeeded and left edges behind.
C2_Witness ==
    /\ last.op \in {"undepend", "remove"}
    /\ last.res = "Ok"
    /\ DOMAIN dependencies # {}
    /\ DOMAIN last.pre.dependencies # DOMAIN dependencies

\* C3 (cycle rejection): in every reachable state, for A # B with B
\* transitively depending on A, depend(A, B) returns CircularDependency and
\* leaves nodes, dependencies and dependents as they were.
C3_CycleRejected ==
    /\ \A a \in Ids, b \in Ids :
          (a # b /\ depends_on(G, b, a)) =>
              depend(G, a, b) = [res |-> "CircularDependency", g |-> G]
    /\ (last.op = "depend" /\ last.a # last.b
            /\ last.a \in Reachable(last.pre.dependencies, last.b)) =>
          (last.res = "CircularDependency" /\ G = last.pre)

\* A depend(A, B) was called while B depended on A.
C3_Witness ==
    /\ last.op = "depend"
    /\ last.a # last.b
    /\ last.a \in Reachable(last.pre.dependencies, last.b)
    /\ last.res = "CircularDependency"

\* C4 (self-loop rejection): in every reachable state and for every X, node
\* or not, depend(X, X) returns DependsOnSelf and changes neither nodes nor
\* the edge maps.
C4_SelfLoopRejected ==
    /\ \A x \in Ids : depend(G, x, x) = [res |-> "DependsOnSelf", g |-> G]
    /\ (last.op = "depend" /\ last.a = last.b) =>
          (last.res = "DependsOnSelf" /\ G = last.pre)

\* depend(X, X) was called with X not a node, on a graph that has nodes.
C4_Witness ==
    /\ last.op = "depend"
    /\ last.a = last.b
    /\ last.a \notin nodes
    /\ nodes # {}

\* C5 (all-or-nothing): whenever depend, undepend or remove returns one of
\* the five errors, (nodes, dependencies, dependents) is what it was before
\* the call.
C5_AllOrNothing ==
    /\ last.res \in Errors \cup {"Ok"}
    /\ last.res \in Errors => G = last.pre
    /\ \A a \in Ids, b \in Ids :
          /\ depend(G, a, b).res \in Errors => depend(G, a, b).g = G
          /\ undepend(G, a, b).res \in Errors => undepend(G, a, b).g = G
          /\ remove(G, a).res \in Errors => remove(G, a).g = G

\* A remove was refused on a node that has a dependency of its own and a
\* dependent.
C5_Witness ==
    /\ Returned("remove", "DependencyExists")
    /\ Get(dependencies, last.a) # {}
    /\ Get(dependents, last.a) # {}

-----------------------------------------------------------------------------
(* C6..C10 *)

\* The result remove(x) has on graph g according to the deletion guard, with
\* the transitive dependents of x read off the direct-dependency relation.
GuardedResult(g, x) ==
    IF x \notin g.nodes THEN "NoSuchNode"
    ELSE IF \E y \in Ids : x \in Reachable(g.dependencies, y) THEN "DependencyExists"
    ELSE "Ok"

\* C6 as stated (deletion guard for every identifier): remove(X) fails with
\* DependencyExists when the transitive dependents(X) is non-empty and
\* succeeds otherwise.
C6_Original ==
    last.op = "remove" =>
        last.res = IF dependents_of(last.pre, last.a) # {}
                   THEN "DependencyExists" ELSE "Ok"

\* C6 (deletion guard, amended): for every identifier X that is a node,
\* remove(X) fails with DependencyExists when the transitive dependents(X) is
\* non-empty and succeeds otherwise; for X not a node it fails with NoSuchNode.
C6_DeletionGuard ==
    /\ \A x \in Ids :
          remove(G, x).res =
              IF x \notin nodes THEN "NoSuchNode"
              ELSE IF dependents_of(G, x) # {} THEN "DependencyExists"
              ELSE "Ok"
    /\ last.op = "remove" => last.res = GuardedResult(last.pre, last.a)

\* A remove was refused on a node that has a dependent of a dependent.
C6_Witness ==
    /\ Returned("remove", "DependencyExists")
    /\ Cardinality(dependents_of(G, last.a)) >= 2
    /\ dependents_of(G, last.a) # Get(dependents, last.a)

\* C7 (exact effect of a successful remove(X)): X is no node, no key and no
\* member of a value set of either map, its two closures are empty, nodes is
\* the old nodes minus X, and for every other Y dependencies(Y) is unchanged
\* and dependents(Y) is the old set minus X.
C7_RemoveEffect ==
    Returned("remove", "Ok") =>
        LET X == last.a
            P == last.pre
        IN  /\ ~contains(G, X)
            /\ X \notin DOMAIN dependencies
            /\ X \notin DOMAIN dependents
            /\ \A k \in Ids : X \notin Get(dependencies, k) /\ X \notin Get(dependents, k)
            /\ dependencies_of(G, X) = {}
            /\ dependents_of(G, X) = {}
            /\ nodes = P.nodes \ {X}
            /\ \A Y \in Ids \ {X} :
                  /\ dependencies_of(G, Y) = dependencies_of(P, Y)
                  /\ dependents_of(G, Y) = dependents_of(P, Y) \ {X}

\* A node with a dependency of a dependency was removed.
C7_Witness ==
    /\ Returned("remove", "Ok")
    /\ Cardinality(dependencies_of(last.pre, last.a)) >= 2
    /\ nodes # {}

\* C8 (direct versus transitive): in every reachable state undepend(A, C)
\* returns NoSuchDirectDependency whenever C is not in the direct set
\* dependencies[A], also when A reaches C through a longer path; the graph is
\* unchanged and depends_on(A, C) is as it was.
C8_DirectOnly ==
    /\ \A a \in Ids, c \in Ids :
          c \notin Get(dependencies, a) =>
              undepend(G, a, c) = [res |-> "NoSuchDirectDependency", g |-> G]
    /\ (last.op = "undepend" /\ last.b \notin Get(last.pre.dependencies, last.a)) =>
          /\ last.res = "NoSuchDirectDependency"
          /\ G = last.pre
          /\ depends_on(G, last.a, last.b) = depends_on(last.pre, last.a, last.b)

\* undepend(A, C) was refused while A depended on C through another node.
C8_Witness ==
    /\ Returned("undepend", "NoSuchDirectDependency")
    /\ depends_on(G, last.a, last.b)
    /\ ~depends_on_directly(G, last.a, last.b)

\* C9 (closure correctness): in every reachable state dependencies(X) is the
\* set of nodes reachable from X by one or more direct dependency edges,
\* dependents(X) is the set of nodes that reach X so, X is in neither, and
\* depends_on(A, B) holds iff B is reachable from A.
C9_Closure ==
    \A x \in Ids :
        /\ dependencies_of(G, x) = Reachable(dependencies, x)
        /\ dependents_of(G, x) = {y \in Ids : x \in Reachable(dependencies, y)}
        /\ x \notin dependencies_of(G, x)
        /\ x \notin dependents_of(G, x)
        /\ \A y \in Ids : depends_on(G, x, y) <=> y \in Reachable(dependencies, x)

\* Some node has a transitive dependency that is not a direct one, and some
\* node a transitive dependent that is not a direct one.
C9_Witness ==
    /\ \E x \in Ids : dependencies_of(G, x) \ Get(dependencies, x) # {}
    /\ \E x \in Ids : dependents_of(G, x) \ Get(dependents, x) # {}

\* C10 (idempotent edges): once depend(A, B) has succeeded, depend(A, B)
\* succeeds again and leaves nodes, dependencies and dependents as they are;
\* a depend on an edge already there returns Ok and changes nothing.
C10_Idempotent ==
    /\ Returned("depend", "Ok") =>
          depend(G, last.a, last.b) = [res |-> "Ok", g |-> G]
    /\ (last.op = "depend" /\ depends_on_directly(last.pre, last.a, last.b)) =>
          (last.res = "Ok" /\ G = last.pre)

\* depend(A, B) was called a second time: it succeeded on an edge that was there.
C10_Witness ==
    /\ Returned("depend", "Ok")
    /\ depends_on_directly(last.pre, last.a, last.b)
    /\ G = last.pre

-----------------------------------------------------------------------------
(* C11..C17 *)

\* Every key and every value-set member of the two maps of g.
Endpoints(g) ==
    DOMAIN g.dependencies \cup DOMAIN g.dependents
        \cup UNION {g.dependencies[k] : k \in DOMAIN g.dependencies}
        \cup UNION {g.dependents[k] : k \in DOMAIN g.dependents}

\* C11 as stated (node-set exactness): in every reachable state nodes is
\* exactly the union of the keys and value-set members of both maps.
C11_Original == nodes = Endpoints(G)

\* C11 (node-set exactness, amended): nodes holds every key and value-set
\* member of both maps, and a depend call keeps nodes equal to that union when
\* it was equal before the call; a successful undepend or remove may leave a
\* node that appears in no edge.
C11_NodeSet ==
    /\ Endpoints(G) \subseteq nodes
    /\ (last.op = "depend" /\ last.pre.nodes = Endpoints(last.pre)) =>
          nodes = Endpoints(G)
    /\ nodes # Endpoints(G) =>
          \/ (last.op \in {"undepend", "remove"} /\ last.res = "Ok")
          \/ last.pre.nodes # Endpoints(last.pre)

\* A successful depend added two nodes to a graph whose nodes all have edges.
C11_Witness ==
    /\ Returned("depend", "Ok")
    /\ last.pre.nodes = Endpoints(last.pre)
    /\ last.pre.nodes # {}
    /\ Cardinality(nodes) > Cardinality(last.pre.nodes)

\* C12 (no empty entries): in every reachable state neither map has a key
\* whose value set is empty; when an undepend or a remove takes the last member
\* out of a set, the key leaves the map.
C12_NoEmptyEntries ==
    /\ \A k \in DOMAIN dependencies : dependencies[k] # {}
    /\ \A k \in DOMAIN dependents : dependents[k] # {}
    /\ (last.op \in {"undepend", "remove"} /\ last.res = "Ok") =>
          \A k \in Ids :
              /\ (k \in DOMAIN last.pre.dependencies /\ Get(dependencies, k) = {})
                    => k \notin DOMAIN dependencies
              /\ (k \in DOMAIN last.pre.dependents /\ Get(dependents, k) = {})
                    => k \notin DOMAIN dependents

\* An undepend took the only member out of a set while other keys stayed.
C12_Witness ==
    /\ Returned("undepend", "Ok")
    /\ last.pre.dependencies[last.a] = {last.b}
    /\ last.a \notin DOMAIN dependencies
    /\ DOMAIN dependencies # {}

\* C13 (lenient queries): in every reachable state, for every X that is not a
\* node, dependencies(X) and dependents(X) are empty and depends_on,
\* depends_on_directly (X in either position) and is_dependend are false.
C13_LenientQueries ==
    \A x \in Ids :
        ~contains(G, x) =>
            /\ dependencies_of(G, x) = {}
            /\ dependents_of(G, x) = {}
            /\ ~is_dependend(G, x)
            /\ \A y \in Ids :
                  /\ ~depends_on(G, x, y)
                  /\ ~depends_on(G, y, x)
                  /\ ~depends_on_directly(G, x, y)
                  /\ ~depends_on_directly(G, y, x)

\* A node that had dependencies was removed, so it is unknown again, while
\* the graph still has edges.
C13_Witness ==
    /\ Returned("remove", "Ok")
    /\ Get(last.pre.dependencies, last.a) # {}
    /\ DOMAIN dependencies # {}
    /\ ~contains(G, last.a)

\* C14 (remove outcomes): in every reachable state and for every X, remove(X)
\* returns NoSuchNode iff X is no node, DependencyExists iff X is a node with a
\* non-empty dependents[X], Ok iff X is a node without direct dependents; no X
\* is both not a node and in possession of direct dependents.
C14_RemoveOutcomes ==
    /\ \A x \in Ids :
          LET r == remove(G, x).res
          IN  /\ r \in {"NoSuchNode", "DependencyExists", "Ok"}
              /\ r = "NoSuchNode" <=> x \notin nodes
              /\ r = "DependencyExists" <=> (x \in nodes /\ Get(dependents, x) # {})
              /\ r = "Ok" <=> (x \in nodes /\ Get(dependents, x) = {})
              /\ ~(x \notin nodes /\ Get(dependents, x) # {})
    /\ last.op = "remove" =>
          last.res = IF last.a \notin last.pre.nodes THEN "NoSuchNode"
                     ELSE IF Get(last.pre.dependents, last.a) # {} THEN "DependencyExists"
                     ELSE "Ok"

\* remove was called on an identifier that had been a node of a graph that
\* still has a blocked node.
C14_Witness ==
    /\ Returned("remove", "NoSuchNode")
    /\ \E x \in Ids : remove(G, x).res = "DependencyExists"
    /\ \E x \in Ids : remove(G, x).res = "Ok"

\* The map `edges` with value added under key, read through Get.
WithEdge(edges, key, value, k) ==
    IF k = key THEN Get(edges, k) \cup {value} ELSE Get(edges, k)

\* The map `edges` with value taken from under key, read through Get.
WithoutEdge(edges, key, value, k) ==
    IF k = key THEN Get(edges, k) \ {value} ELSE Get(edges, k)

\* The keys a map must have for its non-empty sets, and no others.
KeysOf(edges) == {k \in Ids : Get(edges, k) # {}}

\* C15 (exact effect of a successful depend): in every reachable state, for
\* A # B with B not transitively depending on A, depend(A, B) returns Ok and
\* the new graph is the old one with A and B added to nodes, B added to
\* dependencies[A] and A added to dependents[B], and nothing else changed.
C15_DependEffect ==
    /\ \A a \in Ids, b \in Ids :
          (a # b /\ a \notin Reachable(dependencies, b)) =>
              LET r == depend(G, a, b)
              IN  /\ r.res = "Ok"
                  /\ r.g.nodes = nodes \cup {a, b}
                  /\ DOMAIN r.g.dependencies = DOMAIN dependencies \cup {a}
                  /\ DOMAIN r.g.dependents = DOMAIN dependents \cup {b}
                  /\ \A k \in Ids :
                        /\ Get(r.g.dependencies, k) = WithEdge(dependencies, a, b, k)
                        /\ Get(r.g.dependents, k) = WithEdge(dependents, b, a, k)
    /\ Returned("depend", "Ok") =>
          /\ nodes = last.pre.nodes \cup {last.a, last.b}
          /\ \A k \in Ids :
                /\ Get(dependencies, k) = WithEdge(last.pre.dependencies, last.a, last.b, k)
                /\ Get(dependents, k) = WithEdge(last.pre.dependents, last.b, last.a, k)

\* A depend gave a second dependency to a node and a second dependent to another.
C15_Witness ==
    /\ Returned("depend", "Ok")
    /\ Get(last.pre.dependencies, last.a) \ {last.b} # {}
    /\ Get(last.pre.dependents, last.b) \ {last.a} # {}
    /\ G # last.pre

\* C16 (exact effect of a successful undepend): when B is in dependencies[A],
\* undepend(A, B) returns Ok, takes only B out of dependencies[A] and only A
\* out of dependents[B], leaves nodes as it was (a node left without edges can
\* still be removed with remove) and leaves every other entry of both maps
\* unchanged.
C16_UndependEffect ==
    /\ \A a \in Ids, b \in Ids :
          b \in Get(dependencies, a) =>
              LET r == undepend(G, a, b)
              IN  /\ r.res = "Ok"
                  /\ r.g.nodes = nodes
                  /\ DOMAIN r.g.dependencies = KeysOf(r.g.dependencies)
                  /\ DOMAIN r.g.dependents = KeysOf(r.g.dependents)
                  /\ \A k \in Ids :
                        /\ Get(r.g.dependencies, k) = WithoutEdge(dependencies, a, b, k)
                        /\ Get(r.g.dependents, k) = WithoutEdge(dependents, b, a, k)
                  /\ \A x \in {a, b} :
                        (Get(r.g.dependencies, x) = {} /\ Get(r.g.dependents, x) = {}) =>
                            /\ contains(r.g, x)
                            /\ remove(r.g, x).res = "Ok"
    /\ Returned("undepend", "Ok") =>
          /\ nodes = last.pre.nodes
          /\ \A k \in Ids :
                /\ Get(dependencies, k) = WithoutEdge(last.pre.dependencies, last.a, last.b, k)
                /\ Get(dependents, k) = WithoutEdge(last.pre.dependents, last.b, last.a, k)

\* An undepend left its dependency without any edge but still a node, and
\* left the dependent with another dependency.
C16_Witness ==
    /\ Returned("undepend", "Ok")
    /\ Get(dependencies, last.b) = {} /\ Get(dependents, last.b) = {}
    /\ contains(G, last.b)
    /\ Get(dependencies, last.a) # {}

\* The dependencies map of g without the direct edge a -> b.
EdgeCut(g, a, b) ==
    [k \in DOMAIN g.dependencies |->
        IF k = a THEN g.dependencies[k] \ {b} ELSE g.dependencies[k]]

\* C17 (reachability after undepend): after a successful undepend(A, B),
\* depends_on_directly(A, B) is false and A depends on exactly what it reaches
\* without the edge A -> B: on B iff another path to B remains, and no longer
\* on what it reached only through B.
C17_AfterUndepend ==
    Returned("undepend", "Ok") =>
        LET a == last.a
            b == last.b
            cut == EdgeCut(last.pre, a, b)
        IN  /\ ~depends_on_directly(G, a, b)
            /\ depends_on(G, a, b) <=>
                  \E c \in Get(last.pre.dependencies, a) \ {b} :
                      b \in Reachable(last.pre.dependencies, c)
            /\ \A z \in Ids : depends_on(G, a, z) <=> z \in Reachable(cut, a)
            /\ Get(last.pre.dependencies, a) = {b} => dependencies_of(G, a) = {}

\* The only edge out of A was removed, and A had reached another node through
\* it (star -> stardust -> bigbang).
C17_Witness ==
    /\ Returned("undepend", "Ok")
    /\ Get(last.pre.dependencies, last.a) = {last.b}
    /\ Cardinality(dependencies_of(last.pre, last.a)) >= 2
    /\ dependencies_of(G, last.a) = {}

\* A second path kept A depending on B after the edge A -> B was removed.
C17_OtherPath ==
    /\ Returned("undepend", "Ok")
    /\ depends_on(G, last.a, last.b)

-----------------------------------------------------------------------------
(* C19, C20 *)

\* C19 (edge endpoints are known nodes): in every reachable state every key
\* and every value-set member of both maps is a member of nodes, possibly
\* with nodes the larger set; a depend on an edge that is already there does
\* not grow nodes.
C19_EndpointsKnown ==
    /\ \A k \in DOMAIN dependencies : k \in nodes /\ dependencies[k] \subseteq nodes
    /\ \A k \in DOMAIN dependents : k \in nodes /\ dependents[k] \subseteq nodes
    /\ \A a \in Ids, b \in Ids :
          depends_on_directly(G, a, b) => depend(G, a, b).g.nodes = nodes
    /\ (last.op = "depend" /\ depends_on_directly(last.pre, last.a, last.b)) =>
          nodes = last.pre.nodes

\* nodes is strictly larger than the set of edge endpoints, and edges remain.
C19_Witness ==
    /\ Endpoints(G) # {}
    /\ nodes \ Endpoints(G) # {}

\* Removing removable nodes from g, one per step, for at most n steps: the
\* graph reached and the number of successful removals.
RECURSIVE drain(_, _, _)
drain(g, n, count) ==
    LET free == {x \in g.nodes : remove(g, x).res = "Ok"}
    IN  IF n = 0 \/ free = {} THEN [g |-> g, count |-> count]
        ELSE drain(remove(g, CHOOSE x \in free : TRUE).g, n - 1, count + 1)

\* C20 (deletion can always make progress): in every reachable state with a
\* non-empty nodes some node can be removed, every successful remove takes
\* exactly one node away, and removing removable nodes one after another
\* empties nodes, dependencies and dependents after exactly |nodes| removals.
C20_RemoveProgress ==
    /\ nodes # {} => \E x \in nodes : remove(G, x).res = "Ok"
    /\ \A x \in Ids :
          remove(G, x).res = "Ok" =>
              Cardinality(remove(G, x).g.nodes) = Cardinality(nodes) - 1
    /\ drain(G, MaxId + 1, 0) = [g |-> new, count |-> Cardinality(nodes)]

\* A remove succeeded on a graph whose every identifier was a node, and a
\* node of what is left is still blocked.
C20_Witness ==
    /\ Returned("remove", "Ok")
    /\ last.pre.nodes = Ids
    /\ \E x \in nodes : remove(G, x).res = "DependencyExists"

-----------------------------------------------------------------------------
(* C18 *)

\* The set of elements of a Vec.
Range(seq) == {seq[i] : i \in 1..Len(seq)}

\* No element occurs twice in seq.
NoDuplicates(seq) == \A i \in 1..Len(seq), j \in 1..Len(seq) : seq[i] = seq[j] => i = j

\* What holds of a traversal at every round: the start node entered the
\* frontier first and is not in the result, every other node that entered a
\* frontier is in the result and conversely, none entered twice, and the
\* rounds are bounded by the number of identifiers.
DigInvariant ==
    dig.pc \in {"loop", "done"} =>
        /\ Len(dig.entered) >= 1
        /\ Head(dig.entered) = dig.node
        /\ dig.node \notin dig.result
        /\ Range(Tail(dig.entered)) = dig.result
        /\ NoDuplicates(dig.entered)
        /\ Range(dig.search_next) \subseteq Range(dig.entered)
        /\ dig.rounds <= MaxId

\* What a returned traversal holds: the closure dig_deep computes.
DigResult ==
    dig.pc = "done" =>
        /\ dig.search_next = <<>>
        /\ dig.result = dig_deep(DigEdges, dig.node)
        /\ dig.result = Reachable(DigEdges, dig.node)

\* A round's new frontier is exactly what the round added to the result.
DigRoundFrontier ==
    DigRound =>
        /\ Range(dig'.search_next) = dig'.result \ dig.result
        /\ NoDuplicates(dig'.search_next)

\* C18 (traversal terminates, each node visited once): for every reachable
\* graph and start node the round-based traversal reaches an empty frontier
\* and returns after finitely many rounds, and every node is placed in the
\* frontier at most once: the start node in the initial frontier only, every
\* other node only in the round that first adds it to the result.
C18_Traversal ==
    /\ []DigInvariant
    /\ []DigResult
    /\ [][DigRoundFrontier]_vars
    /\ (dig.pc = "loop") ~> (dig.pc = "done")

\* A traversal returned after finding a node that two visited nodes point to.
C18_Witness ==
    /\ dig.pc = "done"
    /\ dig.rounds >= 2
    /\ \E z \in dig.result :
          Cardinality({y \in dig.result \cup {dig.node} : z \in Get(DigEdges, y)}) >= 2

\* A traversal returned after as many rounds as there are identifiers.
C18_LongestRun ==
    /\ dig.pc = "done"
    /\ dig.rounds = MaxId

====
